---- MODULE Spec2Model ----
(***************************************************************************)
(* Model of the two command-line programs of llm-api-use:                  *)
(*   completions_01.py  one request/response exchange, message from argv   *)
(*   completions_02.py  interactive loop that accumulates a transcript     *)
(*                                                                         *)
(* A Python str is a sequence of one-character strings, so that strip(),   *)
(* lower(), len() and slicing are computed and not assumed.  Optional[str] *)
(* is a sequence of zero or one str: None is << >>, a value v is << v >>.  *)
(***************************************************************************)
EXTENDS Integers, Sequences, FiniteSets, TLC

\* ----------------------------------------------------------------- bounds
\* Input lines the interactive loop may read before the model stops reading.
MaxReads == 2

\* ------------------------------------------------------- program constants
\* completions_02.py:147  prompts longer than this are cut in the verbose log
TruncateAt == 1000
\* completions_01.py:65 and completions_02.py:92
DefaultMaxTokens == 256

\* ---------------------------------------------------------------- strings
None == << >>
Some(v) == << v >>

WhiteSpace == {" ", "\t", "\n"}

RECURSIVE lstrip(_)
lstrip(s) ==
    IF s # << >> /\ Head(s) \in WhiteSpace THEN lstrip(Tail(s)) ELSE s

RECURSIVE rstrip(_)
rstrip(s) ==
    IF s # << >> /\ s[Len(s)] \in WhiteSpace
    THEN rstrip(SubSeq(s, 1, Len(s) - 1))
    ELSE s

\* str.strip(): leading and trailing whitespace removed
strip(s) == rstrip(lstrip(s))

UpperCase == <<"A","B","C","D","E","F","G","H","I","J","K","L","M",
               "N","O","P","Q","R","S","T","U","V","W","X","Y","Z">>
LowerCase == <<"a","b","c","d","e","f","g","h","i","j","k","l","m",
               "n","o","p","q","r","s","t","u","v","w","x","y","z">>

lower_char(c) ==
    IF \E i \in 1..26 : UpperCase[i] = c
    THEN LowerCase[CHOOSE i \in 1..26 : UpperCase[i] = c]
    ELSE c

\* str.lower()
lower(s) == [i \in 1..Len(s) |-> lower_char(s[i])]

\* ----------------------------------------------------------- text literals
USAGE == <<"U","s","a","g","e",":"," ","c","o","m","p","l","e","t","i","o","n","s","_","0","1",".","p","y"," ","\"","<","m","e","s","s","a","g","e",">","\"","\n","-"," ","T","h","e"," ","m","e","s","s","a","g","e"," ","i","s"," ","r","e","a","d"," ","f","r","o","m"," ","$","1"," ","(","f","i","r","s","t"," ","C","L","I"," ","a","r","g","u","m","e","n","t",")",".","\n">>
KEY_NOT_FOUND == <<"E","r","r","o","r",":"," ","O","P","E","N","A","I","_","A","P","I","_","K","E","Y"," ","n","o","t"," ","f","o","u","n","d","."," ","S","e","t"," ","i","t"," ","i","n"," ","e","n","v"," ","o","r"," ","/","o","p","t","/","m","y","k","e","y",".","j","s","o","n",".","\n">>
BANNER == <<"T","y","p","e"," ","\"","e","x","i","t","\""," ","t","o"," ","q","u","i","t",".","\n">>
UNEXPECTED == <<"U","n","e","x","p","e","c","t","e","d"," ","r","e","s","p","o","n","s","e"," ","f","o","r","m","a","t",".","\n">>
API_ERROR == <<"A","P","I"," ","e","r","r","o","r",":"," ">>
USER_TAG == <<"U","s","e","r",":"," ">>
ASSISTANT_MARKER == <<"\n","A","s","s","i","s","t","a","n","t",":">>
ASSISTANT_TAG == <<"A","s","s","i","s","t","a","n","t",":"," ">>
NL_ASSISTANT_TAG == <<"\n","A","s","s","i","s","t","a","n","t",":"," ">>
YOU_PROMPT == <<"Y","o","u",":"," ">>
TRUNCATED == <<".",".","."," ","[","t","r","u","n","c","a","t","e","d","]">>
NL == <<"\n">>
EXIT_WORD == <<"e","x","i","t">>
QUIT_WORD == <<"q","u","i","t">>

\* ------------------------------------------------------ credential resolver
\* get_env returning the value with its whitespace removed
get_env_stripped(env) ==
    IF env # None /\ env[1] # << >> /\ strip(env[1]) # << >>
    THEN Some(strip(env[1]))
    ELSE None

\* get_env without the value.strip() test: a blank value counts as set
get_env_unchecked(env) ==
    IF env # None /\ env[1] # << >> THEN Some(env[1]) ELSE None

\* get_env(name): the value if set and not blank, else None.
\* env is Optional[str]: what os.getenv returns.
get_env(env) ==
    IF env # None /\ env[1] # << >> /\ strip(env[1]) # << >>
    THEN Some(env[1])
    ELSE None

\* The credential file /opt/mykey.json as the resolver finds it:
\*   kind  "missing"     os.path.isfile is false
\*         "unreadable"  open() raises
\*         "malformed"   json.load raises
\*         "list"        valid JSON that is not an object (data.get raises)
\*         "object"      a JSON object
\*   has_key / vtype / val describe data["OPENAI_API_KEY"] of an object:
\*   vtype "str" with text val, "int" (a number), or "null" (no value).
KeyFile(kind, has_key, vtype, val) ==
    [kind |-> kind, has_key |-> has_key, vtype |-> vtype, val |-> val]

\* get_key_from_json(path): every failure is caught and becomes None.
get_key_from_json(file) ==
    IF file.kind # "object" THEN None
    ELSE IF ~file.has_key THEN None
    ELSE IF file.vtype = "str" /\ file.val # << >> /\ strip(file.val) # << >>
         THEN Some(strip(file.val))
         ELSE None

\* get_env("OPENAI_API_KEY") or get_key_from_json("/opt/mykey.json")
ResolveApiKey(env, file) ==
    IF get_env(env) # None THEN get_env(env) ELSE get_key_from_json(file)

\* `or` evaluates its right operand only when the left one is falsy
FileConsulted(env) == get_env(env) = None

\* ------------------------------------------------------------ prompt builder
\* build_prompt with one newline after the system instruction
build_prompt_oneline(system_text, transcript, user_message) ==
    LET header == IF system_text # << >> THEN system_text \o <<"\n">>
                  ELSE << >>
    IN  header \o transcript \o USER_TAG \o user_message \o ASSISTANT_MARKER

build_prompt(system_text, transcript, user_message) ==
    LET header == IF system_text # << >> THEN system_text \o <<"\n", "\n">>
                  ELSE << >>
    IN  header \o transcript \o USER_TAG \o user_message \o ASSISTANT_MARKER


\* ------------------------------------------------------- completion client
\* What client.completions.create does with one request: it raises, or it
\* returns a response whose choices is a list of objects with a text field
\* (None when the field is absent or null).
Raise(e) == [raises |-> TRUE, error |-> e, choices |-> << >>]
Response(ch) == [raises |-> FALSE, error |-> << >>, choices |-> ch]
Choice(t) == [text |-> t]

\* response.choices[0].text.strip() raises unless choices[0].text is a str
HasText(resp) == resp.choices # << >> /\ resp.choices[1].text # None

\* response.choices[0].text.strip()
ExtractText(resp) == strip(resp.choices[1].text[1])

\* request_payload of completions_02.py (lines 134-140)
RequestPayload02(a, p) ==
    [model |-> a.model, prompt |-> p, max_tokens |-> a.max_tokens,
     temperature |-> a.temperature, stop |-> Some(<<"\nUser:", "User:">>)]

\* keyword arguments of the create call of completions_01.py (lines 62-67)
RequestPayload01(m, p) ==
    [model |-> m, prompt |-> p, max_tokens |-> DefaultMaxTokens,
     temperature |-> "0.7", stop |-> None]

\* ------------------------------------------------------- presentation layer
\* One write to a stream.  fn "write" carries text; fn "print_gray_json"
\* carries the label and the data that json.dumps renders between the
\* ANSI gray and reset codes.
Write(t) == [fn |-> "write", text |-> t, label |-> "", data |-> << >>]
print_gray_json(label, d) ==
    [fn |-> "print_gray_json", text |-> << >>, label |-> label, data |-> <<d>>]

\* the truncation test written with < in place of <=
LoggedPrompt_offbyone(v) ==
    IF Len(v) < TruncateAt THEN v ELSE SubSeq(v, 1, TruncateAt) \o TRUNCATED

\* v if len(v) <= 1000 else v[:1000] + "... [truncated]"
LoggedPrompt(v) ==
    IF Len(v) <= TruncateAt THEN v ELSE SubSeq(v, 1, TruncateAt) \o TRUNCATED

\* the dict handed to print_gray_json(">> Request:", ...) (lines 145-148)
LoggedRequest(payload) ==
    [endpoint |-> "completions.create", model |-> payload.model,
     prompt |-> LoggedPrompt(payload.prompt),
     max_tokens |-> payload.max_tokens, temperature |-> payload.temperature,
     stop |-> payload.stop]

\* ------------------------------------------------------------------- state
VARIABLES
    program,         \* "completions_01" | "completions_02" | "build_prompt"
    argv,            \* Optional[str]: sys.argv[1] when given
    env_key,         \* Optional[str]: os.getenv("OPENAI_API_KEY")
    key_file,        \* the credential file, a KeyFile
    args,            \* parsed options: model, temperature, max_tokens, system, verbose
    pc,              \* position in main
    api_key,         \* Optional[str]: the resolved credential
    file_consulted,  \* get_key_from_json was called
    client,          \* OpenAI(api_key=...) was constructed
    transcript,      \* str
    user_input,      \* str: the stripped line being handled
    prompt,          \* str: the prompt last built
    request_payload, \* Optional: the request built for the current line
    reads,           \* what input() returned so far: lines, or end of input
    calls,           \* every client.completions.create call with its outcome
    stdout,          \* writes to standard output, in order
    stderr,          \* writes to standard error, in order
    exit_code        \* Optional[int]: main's return value

vars == <<program, argv, env_key, key_file, args, pc, api_key, file_consulted,
          client, transcript, user_input, prompt, request_payload, reads,
          calls, stdout, stderr, exit_code>>

\* ------------------------------------------------------------- input sets
EnvValues ==
    {None, Some(<< >>), Some(<<" ">>), Some(<<"k">>), Some(<<" ", "k">>)}

KeyFiles ==
    { KeyFile("missing", FALSE, "null", << >>),
      KeyFile("unreadable", FALSE, "null", << >>),
      KeyFile("malformed", FALSE, "null", << >>),
      KeyFile("list", FALSE, "null", << >>),
      KeyFile("object", FALSE, "null", << >>),
      KeyFile("object", TRUE, "int", << >>),
      KeyFile("object", TRUE, "str", << >>),
      KeyFile("object", TRUE, "str", <<" ">>),
      KeyFile("object", TRUE, "str", <<"f">>),
      KeyFile("object", TRUE, "str", <<" ", "f", "\n">>) }

Messages == {<<"H", "i">>}

Lines ==
    { << >>, <<" ">>, EXIT_WORD, <<"E","X","I","T">>, <<"Q","u","i","t">>,
      <<" ","q","u","i","t">>, <<"h","i">>, <<" ","y","o"," ">> }

Responses ==
    { Raise(<<"b","o","o","m">>),
      Response(<< >>),
      Response(<<Choice(None)>>),
      Response(<<Choice(Some(<<" ","o","k","\n">>))>>) }

SystemTexts == {<< >>, <<"S">>}

Args(sys, verbose) ==
    [model |-> "gpt-3.5-turbo-instruct", temperature |-> "0.7",
     max_tokens |-> DefaultMaxTokens, system |-> sys, verbose |-> verbose]

\* -------------------------------------------------------------------- Init
InitLocals ==
    /\ api_key = None
    /\ file_consulted = FALSE
    /\ client = FALSE
    /\ transcript = << >>
    /\ user_input = << >>
    /\ prompt = << >>
    /\ request_payload = None
    /\ reads = << >>
    /\ calls = << >>
    /\ stdout = << >>
    /\ stderr = << >>
    /\ exit_code = None

Init01 ==
    /\ program = "completions_01"
    /\ argv \in {None} \cup {Some(m) : m \in Messages}
    /\ env_key \in EnvValues
    /\ key_file \in KeyFiles
    /\ args = Args(<< >>, FALSE)
    /\ pc = "argv"
    /\ InitLocals

Init02 ==
    /\ program = "completions_02"
    /\ argv = None
    /\ env_key \in EnvValues
    /\ key_file \in KeyFiles
    /\ args \in {Args(s, v) : s \in SystemTexts, v \in BOOLEAN}
    /\ pc = "resolve"
    /\ InitLocals

Init == Init01 \/ Init02


\* ----------------------------------------------------------------- helpers
\* Python truthiness of an Optional[str]: `not api_key`
Falsy(opt) == opt = None \/ opt[1] = << >>

Exit(n) == Some(n)

\* the exit test without .lower()
Dispatch_nolower(stripped) ==
    IF stripped = << >> THEN "continue"
    ELSE IF stripped \in {EXIT_WORD, QUIT_WORD} THEN "break"
    ELSE "process"

\* the loop without the empty-line test
Dispatch_noskip(stripped) ==
    IF lower(stripped) \in {EXIT_WORD, QUIT_WORD} THEN "break"
    ELSE "process"

\* What main of completions_02.py does with a stripped line (lines 127-132):
\* "continue" on an empty one, "break" on exit/quit, else "process".
Dispatch(stripped) ==
    IF stripped = << >> THEN "continue"
    ELSE IF lower(stripped) \in {EXIT_WORD, QUIT_WORD} THEN "break"
    ELSE "process"

\* the transcript assigned with = in place of +=
AppendExchange_assign(tr, ui, assistant_text) ==
    USER_TAG \o ui \o NL_ASSISTANT_TAG \o assistant_text \o NL

\* transcript += f"User: {user_input}\nAssistant: {assistant_text}\n"
AppendExchange(tr, ui, assistant_text) ==
    tr \o USER_TAG \o ui \o NL_ASSISTANT_TAG \o assistant_text \o NL

\* the loop recording the user line before it knows the call succeeded
Handle02_records(resp, tr, ui, verbose) ==
    IF resp.raises THEN
        [out |-> << >>,
         err |-> <<Write(API_ERROR \o resp.error \o NL)>>,
         transcript |-> tr \o USER_TAG \o ui \o NL]
    ELSE
        LET log == IF verbose THEN <<print_gray_json("<< Response:", resp)>>
                   ELSE << >>
        IN  IF ~(resp.choices # << >> /\ resp.choices[1].text # None) THEN
                [out |-> log, err |-> <<Write(UNEXPECTED)>>,
                 transcript |-> tr \o USER_TAG \o ui \o NL]
            ELSE
                [out |-> log \o <<Write(ASSISTANT_TAG
                                          \o strip(resp.choices[1].text[1]) \o NL)>>,
                 err |-> << >>,
                 transcript |-> tr \o USER_TAG \o ui \o NL_ASSISTANT_TAG
                                   \o strip(resp.choices[1].text[1]) \o NL]

\* What main of completions_02.py does with the outcome of the create call
\* (lines 151-169): the writes to each stream and the transcript afterwards.
Handle02(resp, tr, ui, verbose) ==
    IF resp.raises THEN
        [out |-> << >>,
         err |-> <<Write(API_ERROR \o resp.error \o NL)>>,
         transcript |-> tr]
    ELSE
        LET log == IF verbose THEN <<print_gray_json("<< Response:", resp)>>
                   ELSE << >>
        IN  IF ~HasText(resp) THEN
                [out |-> log, err |-> <<Write(UNEXPECTED)>>, transcript |-> tr]
            ELSE
                [out |-> log \o <<Write(ASSISTANT_TAG \o ExtractText(resp) \o NL)>>,
                 err |-> << >>,
                 transcript |-> AppendExchange(tr, ui, ExtractText(resp))]

\* main of completions_01.py returning 1 for every error
Handle01_allones(resp) ==
    IF resp.raises THEN
        [out |-> << >>, err |-> <<Write(API_ERROR \o resp.error \o NL)>>,
         code |-> 1]
    ELSE IF ~(resp.choices # << >> /\ resp.choices[1].text # None) THEN
        [out |-> << >>, err |-> <<Write(UNEXPECTED)>>, code |-> 1]
    ELSE
        [out |-> <<Write(strip(resp.choices[1].text[1]) \o NL)>>,
         err |-> << >>, code |-> 0]

\* What main of completions_01.py does with the outcome of the create call
\* (lines 61-79): the writes to each stream and the return value.
Handle01(resp) ==
    IF resp.raises THEN
        [out |-> << >>, err |-> <<Write(API_ERROR \o resp.error \o NL)>>,
         code |-> 2]
    ELSE IF ~HasText(resp) THEN
        [out |-> << >>, err |-> <<Write(UNEXPECTED)>>, code |-> 2]
    ELSE
        [out |-> <<Write(ExtractText(resp) \o NL)>>, err |-> << >>, code |-> 0]

\* a client call that sends the request again when the first attempt raises
Issue_retry(log, ui, payload, resp) ==
    IF resp.raises
    THEN log \o <<[input |-> ui, request |-> payload, response |-> resp],
                  [input |-> ui, request |-> payload, response |-> resp]>>
    ELSE Append(log, [input |-> ui, request |-> payload, response |-> resp])

\* One client.completions.create call: the request goes out once and the
\* outcome comes back; nothing is retried.
Issue(log, ui, payload, resp) ==
    Append(log, [input |-> ui, request |-> payload, response |-> resp])

\* ------------------------------------------------- completions_01.py: main
\* lines 39-46
CheckArgv01 ==
    /\ program = "completions_01"
    /\ pc = "argv"
    /\ IF argv = None
       THEN /\ stderr' = Append(stderr, Write(USAGE))
            /\ exit_code' = Exit(1)
            /\ pc' = "done"
            /\ UNCHANGED user_input
       ELSE /\ user_input' = argv[1]
            /\ pc' = "resolve"
            /\ UNCHANGED <<stderr, exit_code>>
    /\ UNCHANGED <<program, argv, env_key, key_file, args, api_key,
                   file_consulted, client, transcript, prompt,
                   request_payload, reads, calls, stdout>>

\* lines 48-59
Resolve01 ==
    /\ program = "completions_01"
    /\ pc = "resolve"
    /\ api_key' = ResolveApiKey(env_key, key_file)
    /\ file_consulted' = FileConsulted(env_key)
    /\ IF Falsy(api_key')
       THEN /\ stderr' = Append(stderr, Write(KEY_NOT_FOUND))
            /\ exit_code' = Exit(1)
            /\ pc' = "done"
            /\ UNCHANGED <<client, prompt, request_payload>>
       ELSE /\ client' = TRUE
            /\ prompt' = user_input
            /\ request_payload' = Some(RequestPayload01(args.model, user_input))
            /\ pc' = "create"
            /\ UNCHANGED <<stderr, exit_code>>
    /\ UNCHANGED <<program, argv, env_key, key_file, args, transcript,
                   user_input, reads, calls, stdout>>

\* lines 61-79
Create01 ==
    /\ program = "completions_01"
    /\ pc = "create"
    /\ \E resp \in Responses :
        LET h == Handle01(resp) IN
        /\ calls' = Issue(calls, user_input, request_payload[1], resp)
        /\ stdout' = stdout \o h.out
        /\ stderr' = stderr \o h.err
        /\ exit_code' = Exit(h.code)
    /\ pc' = "done"
    /\ UNCHANGED <<program, argv, env_key, key_file, args, api_key,
                   file_consulted, client, transcript, user_input, prompt,
                   request_payload, reads>>

\* ------------------------------------------------- completions_02.py: main
\* lines 108-118
Resolve02 ==
    /\ program = "completions_02"
    /\ pc = "resolve"
    /\ api_key' = ResolveApiKey(env_key, key_file)
    /\ file_consulted' = FileConsulted(env_key)
    /\ IF Falsy(api_key')
       THEN /\ stderr' = Append(stderr, Write(KEY_NOT_FOUND))
            /\ exit_code' = Exit(1)
            /\ pc' = "done"
            /\ UNCHANGED <<client, stdout>>
       ELSE /\ client' = TRUE
            /\ stdout' = Append(stdout, Write(BANNER))
            /\ pc' = "await"
            /\ UNCHANGED <<stderr, exit_code>>
    /\ UNCHANGED <<program, argv, env_key, key_file, args, transcript,
                   user_input, prompt, request_payload, reads, calls>>

\* lines 121-125: input() raises EOFError or KeyboardInterrupt
ReadEOF ==
    /\ program = "completions_02"
    /\ pc = "await"
    /\ reads' = Append(reads, [eof |-> TRUE, text |-> << >>])
    /\ stdout' = stdout \o <<Write(YOU_PROMPT), Write(NL)>>
    /\ exit_code' = Exit(0)
    /\ pc' = "done"
    /\ UNCHANGED <<program, argv, env_key, key_file, args, api_key,
                   file_consulted, client, transcript, user_input, prompt,
                   request_payload, calls, stderr>>

\* lines 121-149: input() returns a line
ReadLine ==
    /\ program = "completions_02"
    /\ pc = "await"
    /\ Len(reads) < MaxReads
    /\ \E line \in Lines :
        LET ui == strip(line)
            p == build_prompt(args.system, transcript, ui)
            payload == RequestPayload02(args, p)
        IN
        /\ reads' = Append(reads, [eof |-> FALSE, text |-> line])
        /\ user_input' = ui
        /\ CASE Dispatch(ui) = "continue" ->
                    /\ stdout' = Append(stdout, Write(YOU_PROMPT))
                    /\ pc' = "await"
                    /\ UNCHANGED <<prompt, request_payload, exit_code>>
             [] Dispatch(ui) = "break" ->
                    /\ stdout' = Append(stdout, Write(YOU_PROMPT))
                    /\ pc' = "done"
                    /\ exit_code' = Exit(0)
                    /\ UNCHANGED <<prompt, request_payload>>
             [] OTHER ->
                    /\ prompt' = p
                    /\ request_payload' = Some(payload)
                    /\ stdout' = stdout \o <<Write(YOU_PROMPT)>> \o
                          (IF args.verbose
                           THEN <<print_gray_json(">> Request:", LoggedRequest(payload))>>
                           ELSE << >>)
                    /\ pc' = "processing"
                    /\ UNCHANGED exit_code
    /\ UNCHANGED <<program, argv, env_key, key_file, args, api_key,
                   file_consulted, client, transcript, calls, stderr>>

\* lines 151-169
Create02 ==
    /\ program = "completions_02"
    /\ pc = "processing"
    /\ \E resp \in Responses :
        LET h == Handle02(resp, transcript, user_input, args.verbose) IN
        /\ calls' = Issue(calls, user_input, request_payload[1], resp)
        /\ stdout' = stdout \o h.out
        /\ stderr' = stderr \o h.err
        /\ transcript' = h.transcript
    /\ pc' = "await"
    /\ UNCHANGED <<program, argv, env_key, key_file, args, api_key,
                   file_consulted, client, user_input, prompt,
                   request_payload, reads, exit_code>>

Next01 == CheckArgv01 \/ Resolve01 \/ Create01
Next02 == Resolve02 \/ ReadEOF \/ ReadLine \/ Create02
Next == Next01 \/ Next02

Spec == Init /\ [][Next]_vars


\* The interactive program with a credential in the environment and system
\* instructions long enough that the prompts straddle TruncateAt.
LongSystems ==
    {[i \in 1..n |-> "s"] : n \in (TruncateAt - 22)..(TruncateAt - 20)}

Init02Long ==
    /\ program = "completions_02"
    /\ argv = None
    /\ env_key = Some(<<"k">>)
    /\ key_file = KeyFile("missing", FALSE, "null", << >>)
    /\ args \in {Args(s, v) : s \in LongSystems, v \in BOOLEAN}
    /\ pc = "resolve"
    /\ InitLocals

Spec02Long == Init02Long /\ [][Next02]_vars

\* build_prompt on its own: the arguments are drawn at the start and one
\* step applies the function.
BuildSystems ==
    { << >>, <<" ">>, <<"S">>,
      <<"Y","o","u"," ","a","r","e"," ","t","e","r","s","e",".">> }

BuildTranscripts ==
    { << >>, <<"x">>, <<"\n">>,
      <<"U","s","e","r",":"," ","a","\n","A","s","s","i","s","t","a","n","t",":"," ","b","\n">> }

BuildMessages ==
    { << >>, <<"H","i">>, <<" ","a"," ">>,
      <<"a","\n","U","s","e","r",":"," ","b">> }

BuildReplies == { << >>, <<"r">>, <<"U","s","e","r",":">> }

InitBuild ==
    /\ program = "build_prompt"
    /\ argv = None
    /\ env_key = None
    /\ key_file = KeyFile("missing", FALSE, "null", << >>)
    /\ args \in {Args(s, FALSE) : s \in BuildSystems}
    /\ pc = "build"
    /\ api_key = None
    /\ file_consulted = FALSE
    /\ client = FALSE
    /\ transcript \in BuildTranscripts
    /\ user_input \in BuildMessages
    /\ prompt = << >>
    /\ request_payload = None
    /\ reads = << >>
    /\ calls = << >>
    /\ stdout = << >>
    /\ stderr = << >>
    /\ exit_code = None

\* prompt = build_prompt(args.system, transcript, user_input)
ApplyBuildPrompt ==
    /\ program = "build_prompt"
    /\ pc = "build"
    /\ prompt' = build_prompt(args.system, transcript, user_input)
    /\ pc' = "built"
    /\ UNCHANGED <<program, argv, env_key, key_file, args, api_key,
                   file_consulted, client, transcript, user_input,
                   request_payload, reads, calls, stdout, stderr, exit_code>>

SpecBuild == InitBuild /\ [][ApplyBuildPrompt]_vars

\* ===================================================== credential resolver
\* a string with at least one character that is not whitespace
NonBlank(s) == \E i \in 1..Len(s) : s[i] \notin WhiteSpace

\* main has evaluated the credential expression
Resolved ==
    /\ program \in {"completions_01", "completions_02"}
    /\ pc \notin {"argv", "resolve"}
    /\ ~(program = "completions_01" /\ argv = None)

\* the credential file holds a string under OPENAI_API_KEY
FileHoldsString ==
    key_file.kind = "object" /\ key_file.has_key /\ key_file.vtype = "str"

NoCredential ==
    /\ env_key = None \/ ~NonBlank(env_key[1])
    /\ ~(FileHoldsString /\ NonBlank(key_file.val))

\* C2: when neither source yields a credential the run ends with the
\* missing-credential message alone on standard error and exit code 1; no
\* client is constructed, no request is issued, the interactive loop reads
\* no input and writes nothing, and a bad credential file adds no error.
C2_MissingCredential ==
    (Resolved /\ NoCredential) =>
        /\ api_key = None
        /\ pc = "done"
        /\ exit_code = Exit(1)
        /\ stderr = <<Write(KEY_NOT_FOUND)>>
        /\ stdout = << >>
        /\ ~client
        /\ calls = << >>
        /\ reads = << >>

C2_Witness ==
    /\ Resolved
    /\ program = "completions_02"
    /\ env_key = Some(<< >>)
    /\ key_file.kind = "malformed"
    /\ exit_code = Exit(1)

\* ============================================== completions_01: exit codes
\* the response carries choices[0].text
TextPresent(r) ==
    ~r.raises /\ Len(r.choices) >= 1 /\ r.choices[1].text # None

\* C3: a finished single-shot run returned 1 with no request issued when the
\* argument or the credential was missing; 2 with nothing on standard output
\* when the call failed ("API error: ..." on standard error) or the response
\* had no choices[0].text; 0 exactly when the call succeeded and the reply
\* was printed once; and nothing else.
C3_ExitCodes ==
    (program = "completions_01" /\ pc = "done") =>
        /\ exit_code \in {Exit(0), Exit(1), Exit(2)}
        /\ (argv = None \/ api_key = None) <=> exit_code = Exit(1)
        /\ exit_code = Exit(1) => (calls = << >> /\ stdout = << >>)
        /\ exit_code # Exit(1) => Len(calls) = 1
        /\ exit_code = Exit(2) <=>
              (calls # << >> /\ ~TextPresent(calls[1].response))
        /\ exit_code = Exit(2) => stdout = << >>
        /\ (calls # << >> /\ calls[1].response.raises) =>
              stderr = <<Write(<<"A","P","I"," ","e","r","r","o","r",":"," ">>
                               \o calls[1].response.error \o <<"\n">>)>>
        /\ exit_code = Exit(0) <=>
              (calls # << >> /\ TextPresent(calls[1].response))
        /\ exit_code = Exit(0) =>
              /\ stderr = << >>
              /\ stdout = <<Write(strip(calls[1].response.choices[1].text[1])
                                    \o <<"\n">>)>>

C3_Witness ==
    /\ program = "completions_01"
    /\ pc = "done"
    /\ exit_code = Exit(0)
    /\ stdout = <<Write(<<"o", "k", "\n">>)>>


\* ================================================ completions_02: the loop
\* this step is one return of input(): a line, or end of input / interrupt
ReadStep == Len(reads') = Len(reads) + 1
LastRead == reads[Len(reads)]

\* this step is one client.completions.create call
CallStep == Len(calls') = Len(calls) + 1

upper_char(c) ==
    IF \E i \in 1..26 : LowerCase[i] = c
    THEN UpperCase[CHOOSE i \in 1..26 : LowerCase[i] = c]
    ELSE c

\* s is the lower-case word w written in any mix of letter cases
SameWordAnyCase(s, w) ==
    /\ Len(s) = Len(w)
    /\ \A i \in 1..Len(w) : s[i] = w[i] \/ s[i] = upper_char(w[i])

IsExitWord(s) == SameWordAnyCase(s, EXIT_WORD) \/ SameWordAnyCase(s, QUIT_WORD)

\* C4: from any state of the loop, reading the line exit or quit in any
\* letter case, or meeting end of input or an interrupt, ends the loop with
\* exit code 0; that step calls the client not at all and leaves the
\* transcript and standard error as they were.
C4_ExitTerminates ==
    [][ (ReadStep /\ (reads'[Len(reads')].eof
                        \/ IsExitWord(reads'[Len(reads')].text)))
          => /\ pc = "await"
             /\ pc' = "done"
             /\ exit_code' = Exit(0)
             /\ calls' = calls
             /\ transcript' = transcript
             /\ stderr' = stderr ]_vars

\* EXIT typed after a successful exchange ended the run
C4_Witness ==
    /\ pc = "done"
    /\ Len(reads) = 2
    /\ LastRead.text = <<"E", "X", "I", "T">>
    /\ transcript # << >>
    /\ exit_code = Exit(0)

\* C5: reading an empty line leaves the loop awaiting input: no client call,
\* no change of transcript, standard error or exit code, and the only thing
\* written to standard output is the input prompt.
C5_EmptyLineNoOp ==
    [][ (ReadStep /\ ~reads'[Len(reads')].eof /\ reads'[Len(reads')].text = << >>)
          => /\ pc = "await"
             /\ pc' = "await"
             /\ calls' = calls
             /\ transcript' = transcript
             /\ stderr' = stderr
             /\ exit_code' = exit_code
             /\ request_payload' = request_payload
             /\ stdout' = Append(stdout, Write(<<"Y","o","u",":"," ">>)) ]_vars

\* an empty line was read after a successful exchange and the loop goes on
C5_Witness ==
    /\ pc = "await"
    /\ Len(reads) = 2
    /\ ~LastRead.eof
    /\ LastRead.text = << >>
    /\ transcript # << >>
    /\ exit_code = None

\* the call failed: it raised, or its response has no choices[0].text
CallFailed(r) == r.raises \/ Len(r.choices) = 0 \/ r.choices[1].text = None

\* the transcript built from the successful calls among the first n
RECURSIVE TranscriptOf(_, _)
TranscriptOf(log, n) ==
    IF n = 0 THEN << >>
    ELSE IF CallFailed(log[n].response) THEN TranscriptOf(log, n - 1)
    ELSE TranscriptOf(log, n - 1)
           \o <<"U","s","e","r",":"," ">> \o log[n].input
           \o <<"\n","A","s","s","i","s","t","a","n","t",":"," ">>
           \o strip(log[n].response.choices[1].text[1]) \o <<"\n">>

\* an "Assistant: ..." line on standard output
IsAssistantLine(w) ==
    /\ w.fn = "write"
    /\ Len(w.text) >= Len(ASSISTANT_TAG)
    /\ SubSeq(w.text, 1, Len(ASSISTANT_TAG)) = ASSISTANT_TAG

\* C6: a failed call in the loop writes one error to standard error
\* ("API error: ..." when the call raised), writes no Assistant line, leaves
\* the transcript as it was and returns to awaiting input without ending
\* the run; and the prompt of every request is built from the successful
\* exchanges before it only.
C6_FailureNotRecorded ==
    /\ [][ (program = "completions_02" /\ CallStep
              /\ CallFailed(calls'[Len(calls')].response))
            => /\ pc = "processing"
               /\ pc' = "await"
               /\ exit_code' = None
               /\ transcript' = transcript
               /\ Len(stderr') = Len(stderr) + 1
               /\ calls'[Len(calls')].response.raises =>
                     stderr'[Len(stderr')] =
                        Write(<<"A","P","I"," ","e","r","r","o","r",":"," ">>
                              \o calls'[Len(calls')].response.error \o <<"\n">>)
               /\ Len(stdout') >= Len(stdout)
               /\ \A i \in 1..Len(stdout) : stdout'[i] = stdout[i]
               /\ \A i \in (Len(stdout) + 1)..Len(stdout') :
                     ~IsAssistantLine(stdout'[i]) ]_vars
    /\ [](program = "completions_02" =>
            \A i \in 1..Len(calls) :
               calls[i].request.prompt =
                  build_prompt(args.system, TranscriptOf(calls, i - 1), calls[i].input))

\* a request went out after a failed call, and the run is still in the loop
C6_Witness ==
    /\ program = "completions_02"
    /\ Len(calls) = 2
    /\ calls[1].response.raises
    /\ ~CallFailed(calls[2].response)
    /\ pc = "await"
    /\ Len(stderr) = 1


\* ===================================================== transcript growth
IsPrefix(a, b) == Len(a) <= Len(b) /\ SubSeq(b, 1, Len(a)) = a

\* the successful exchanges among the first n calls, serialized from the line
\* as it was typed and the reply text as the client returned it
RECURSIVE RawTranscriptOf(_, _, _)
RawTranscriptOf(log, typed, n) ==
    IF n = 0 THEN << >>
    ELSE IF CallFailed(log[n].response) THEN RawTranscriptOf(log, typed, n - 1)
    ELSE RawTranscriptOf(log, typed, n - 1)
           \o <<"U","s","e","r",":"," ">> \o typed[n]
           \o <<"\n","A","s","s","i","s","t","a","n","t",":"," ">>
           \o log[n].response.choices[1].text[1] \o <<"\n">>

\* the lines that led to a request, as typed, in order
RECURSIVE TypedRequests(_, _)
TypedRequests(rd, n) ==
    IF n = 0 THEN << >>
    ELSE IF ~rd[n].eof /\ Dispatch(strip(rd[n].text)) = "process"
         THEN Append(TypedRequests(rd, n - 1), rd[n].text)
         ELSE TypedRequests(rd, n - 1)

\* C7 as stated: the transcript starts empty, every step extends it, only a
\* successful exchange changes it, and it is the concatenation of
\* "User: <input>\nAssistant: <reply>\n" over the successful exchanges, with
\* <input> the line read and <reply> the text of the response.
C7_AsStated ==
    /\ [](pc \in {"argv", "resolve"} => transcript = << >>)
    /\ [][ /\ IsPrefix(transcript, transcript')
           /\ transcript' # transcript =>
                 (CallStep /\ ~CallFailed(calls'[Len(calls')].response)) ]_vars
    /\ [](program = "completions_02" /\ pc # "processing" =>
            transcript =
               RawTranscriptOf(calls, TypedRequests(reads, Len(reads)), Len(calls)))

\* C7 amended: the transcript starts empty, every step extends it, only a
\* successful exchange changes it, and that step appends exactly
\* "User: <input>\nAssistant: <reply>\n" where <input> is the line read and
\* <reply> the response text, each with leading and trailing whitespace
\* removed; so the transcript is always the in-order concatenation of the
\* successful exchanges serialized that way.
C7_AppendOnly ==
    /\ [](pc \in {"argv", "resolve"} => transcript = << >>)
    /\ [][ /\ IsPrefix(transcript, transcript')
           /\ transcript' # transcript =>
                 (CallStep /\ ~CallFailed(calls'[Len(calls')].response))
           /\ (program = "completions_02" /\ CallStep
                 /\ ~CallFailed(calls'[Len(calls')].response)) =>
                 transcript' = transcript
                    \o <<"U","s","e","r",":"," ">> \o strip(LastRead.text)
                    \o <<"\n","A","s","s","i","s","t","a","n","t",":"," ">>
                    \o strip(calls'[Len(calls')].response.choices[1].text[1])
                    \o <<"\n">> ]_vars
    /\ [](program = "completions_02" => transcript = TranscriptOf(calls, Len(calls)))

\* two successful exchanges are in the transcript, one from a padded line
\* and one with a padded reply
C7_Witness ==
    /\ program = "completions_02"
    /\ Len(calls) = 2
    /\ pc = "await"
    /\ reads[1].text = <<" ","y","o"," ">>
    /\ ~CallFailed(calls[1].response)
    /\ calls[2].response = Response(<<Choice(Some(<<" ","o","k","\n">>))>>)
    /\ Len(transcript) > 0

\* ================================================== one request per unit
\* the line as read is not empty and is not exit/quit in any letter case
NeedsRequestAsTyped(line) == line # << >> /\ ~IsExitWord(line)

\* the same of the line with surrounding whitespace removed
NeedsRequestStripped(line) == NonBlank(line) /\ ~IsExitWord(strip(line))

\* how many of the lines read so far need a request, by each reading
DueAsTyped ==
    Cardinality({i \in 1..Len(reads) :
                    ~reads[i].eof /\ NeedsRequestAsTyped(reads[i].text)})
DueStripped ==
    Cardinality({i \in 1..Len(reads) :
                    ~reads[i].eof /\ NeedsRequestStripped(reads[i].text)})

\* calls made so far, counting the one the current line still owes
CallsDue == Len(calls) + (IF pc = "processing" THEN 1 ELSE 0)

\* a single-shot run with an argument and a credential that has finished
SingleShotRan ==
    program = "completions_01" /\ pc = "done" /\ argv # None /\ api_key # None

\* C10 as stated: every line that is non-empty and not exit/quit costs
\* exactly one request, made before the next read, every other input costs
\* none, and a single-shot run with argument and credential makes one call.
C10_AsStated ==
    /\ program = "completions_02" =>
          CallsDue = DueAsTyped
    /\ SingleShotRan => Len(calls) = 1

\* C10 amended: every line that, with leading and trailing whitespace
\* removed, is non-empty and is not exit/quit (in any letter case) costs
\* exactly one request, made before the next input is read, whether it
\* succeeds or fails; every other input costs none; and a single-shot run
\* with an argument and a credential makes exactly one call.
C10_OneRequestPerUnit ==
    /\ program = "completions_02" =>
          /\ CallsDue = DueStripped
          /\ pc = "processing" => NeedsRequestStripped(LastRead.text)
    /\ SingleShotRan => Len(calls) = 1
    /\ (program = "completions_01" /\ pc = "done" /\ ~SingleShotRan) => calls = << >>

\* a failed call, then a blank line, and no second call was made
C10_Witness ==
    /\ program = "completions_02"
    /\ Len(reads) = 2
    /\ reads[2].text = <<" ">>
    /\ Len(calls) = 1
    /\ calls[1].response.raises
    /\ pc = "await"


\* ============================================================ verbose log
IsRequestLog(w) == w.fn = "print_gray_json" /\ w.label = ">> Request:"

\* the request payloads logged so far, in order
RequestLogs == SelectSeq(stdout, IsRequestLog)

\* shown is p cut to its first TruncateAt characters plus the marker
CutWithMarker(shown, p) ==
    /\ Len(shown) = TruncateAt + 15
    /\ \A k \in 1..TruncateAt : shown[k] = p[k]
    /\ SubSeq(shown, TruncateAt + 1, Len(shown)) =
          <<".",".","."," ","[","t","r","u","n","c","a","t","e","d","]">>

\* C8: in verbose mode every request is logged once, before it is sent; a
\* prompt longer than 1000 characters is shown as its first 1000 characters
\* plus "... [truncated]", a shorter one unchanged; the request sent has the
\* whole prompt and the model, max_tokens, temperature and stop logged.
C8_VerboseTruncation ==
    (program = "completions_02" /\ args.verbose) =>
        /\ Len(RequestLogs) = CallsDue
        /\ \A i \in 1..Len(calls) :
              LET shown == RequestLogs[i].data[1]
                  sent == calls[i].request
              IN  /\ sent.prompt =
                        build_prompt(args.system, TranscriptOf(calls, i - 1),
                                     calls[i].input)
                  /\ Len(sent.prompt) > TruncateAt =>
                        CutWithMarker(shown.prompt, sent.prompt)
                  /\ Len(sent.prompt) <= TruncateAt =>
                        shown.prompt = sent.prompt
                  /\ shown.model = sent.model /\ sent.model = args.model
                  /\ shown.max_tokens = sent.max_tokens
                  /\ sent.max_tokens = args.max_tokens
                  /\ shown.temperature = sent.temperature
                  /\ sent.temperature = args.temperature
                  /\ shown.stop = sent.stop
                  /\ sent.stop = Some(<<"\nUser:", "User:">>)

\* a prompt of exactly 1000 characters went out, then a longer one
C8_Witness ==
    /\ program = "completions_02"
    /\ args.verbose
    /\ Len(calls) = 2
    /\ Len(calls[1].request.prompt) = TruncateAt
    /\ Len(calls[2].request.prompt) > TruncateAt
    /\ Len(RequestLogs[2].data[1].prompt) < Len(calls[2].request.prompt)

\* ========================================================== prompt builder
\* C9: the built prompt is the system instruction followed by a blank line
\* (only when the instruction is not empty), the transcript, and
\* "User: <message>\nAssistant:", character for character; "You are terse.",
\* an empty transcript and "Hi" give "You are terse.\n\nUser: Hi\nAssistant:";
\* and the prompt for the transcript grown by this exchange is this prompt
\* extended by the reply and the marker of the next message.
C9_PromptBuilder ==
    pc = "built" =>
        /\ prompt =
              (IF args.system = << >> THEN << >>
               ELSE args.system \o <<"\n", "\n">>)
              \o transcript
              \o <<"U","s","e","r",":"," ">> \o user_input
              \o <<"\n","A","s","s","i","s","t","a","n","t",":">>
        /\ (/\ args.system = <<"Y","o","u"," ","a","r","e"," ","t","e","r","s","e",".">>
            /\ transcript = << >>
            /\ user_input = <<"H","i">>) =>
              prompt = <<"Y","o","u"," ","a","r","e"," ","t","e","r","s","e",".","\n","\n","U","s","e","r",":"," ","H","i","\n","A","s","s","i","s","t","a","n","t",":">>
        /\ \A reply \in BuildReplies, m \in BuildMessages :
              build_prompt(args.system,
                           transcript
                             \o <<"U","s","e","r",":"," ">> \o user_input
                             \o <<"\n","A","s","s","i","s","t","a","n","t",":"," ">>
                             \o reply \o <<"\n">>,
                           m)
                = prompt \o <<" ">> \o reply \o <<"\n">>
                    \o <<"U","s","e","r",":"," ">> \o m
                    \o <<"\n","A","s","s","i","s","t","a","n","t",":">>

\* the prompt of the documented example was built
C9_Witness ==
    /\ pc = "built"
    /\ args.system = <<"Y","o","u"," ","a","r","e"," ","t","e","r","s","e",".">>
    /\ transcript = << >>
    /\ user_input = <<"H","i">>
    /\ Len(prompt) = 35

====
